---- MODULE Spec2Model ----
(***************************************************************************)
(* Huffman compressor / decompressor (encode.rs, decode.rs).               *)
(*                                                                         *)
(* Characters are Unicode code points (naturals), the file is a sequence   *)
(* of bytes (0..255), a bit is a BOOLEAN.  A HashMap is a function; the    *)
(* order in which the program iterates one is a nondeterministic choice.   *)
(* The BinaryHeap is the set of the nodes it holds: Ord for Node compares  *)
(* frequencies only, so pop returns some node of least frequency, and      *)
(* which one among equals depends on the push order, that is on the        *)
(* HashMap's iteration order.                                              *)
(***************************************************************************)
EXTENDS Integers, Sequences, FiniteSets, TLC

VARIABLES
    pc,               \* position in compress / decompress
    outcome,          \* "none" while running, then "ok", "panic" or "err"
    contents,         \* compress: the input string (sequence of chars)
    frequency_table,  \* init_frequency_table's HashMap<char, u32>
    prio_queue,       \* the BinaryHeap<Node>
    tree,             \* create_huffman_tree's result
    encoding_table,   \* HashMap<char, BitVec>
    file,             \* the compressed file, a sequence of bytes
    run,              \* 1, or 2 once compress has been run again
    prev_file,        \* the file the first run wrote
    entry_count,      \* parse_header: the declared entry count
    raw_table,        \* parse_header: the header lines read
    rpos,             \* the BufReader's position in file
    dec_table,        \* Reconst.encoding_table: HashMap<char, String>
    pending,          \* from_table: the keys the fold has not reached yet
    huffman_tree,     \* Reconst.huffman_tree (decode::Root)
    bv,               \* write_decoded: the bits handed to tread
    decoded,          \* tread's result
    merges,           \* create_huffman_tree: the loop turns that merged a pair
    current_freq,     \* compression.rs create_huffman_tree: current_freq
    max_freq,         \* compression.rs create_huffman_tree: max_freq
    current_root      \* compression.rs create_huffman_tree: current_root

vars == <<pc, outcome, contents, frequency_table, prio_queue, tree,
          encoding_table, file, run, prev_file, entry_count, raw_table, rpos,
          dec_table, pending, huffman_tree, bv, decoded, merges,
          current_freq, max_freq, current_root>>

encVars == <<frequency_table, prio_queue, tree, encoding_table, merges>>
decVars == <<entry_count, raw_table, rpos, dec_table, pending, huffman_tree,
             bv, decoded>>
compVars == <<current_freq, max_freq, current_root>>

----------------------------------------------------------------------------
(* Bounds of the model *)

\* longest input string of the pipeline specifications
MaxLen == 4
\* longest input string when compress is run twice
MaxLenRerun == 3
\* longest code of a code table drawn directly
MaxCode == 2
\* most header lines of a file drawn directly
MaxLines == 2
\* most occurrences of one symbol in the inputs of the tree specifications
MaxFreq == 5
\* most runs of one symbol in the inputs that fill several payload bytes
MaxRuns == 3

(* Characters the program names *)
CH_NL == 10
CH_CR == 13
CH_PLUS == 43
CH_0 == 48
CH_1 == 49
CH_BSL == 92
CH_n == 110

\* the input alphabet: 'a', 'b', newline, backslash
Alphabet == {97, 98, 10, 92}

InputsUpTo(len) == UNION {[1..n -> Alphabet] : n \in 0..len}

----------------------------------------------------------------------------
(* Sequences *)

RECURSIVE Flatten(_)
Flatten(ss) == IF ss = <<>> THEN <<>> ELSE Head(ss) \o Flatten(Tail(ss))

Perms(S) ==
    {f \in [1..Cardinality(S) -> S] : \A i, j \in DOMAIN f : f[i] = f[j] => i = j}

IsPrefix(p, q) == Len(p) <= Len(q) /\ SubSeq(q, 1, Len(p)) = p

----------------------------------------------------------------------------
(* encode.rs: nodes *)

NoTree == [kind |-> "None"]

new_leaf(value, frequency) ==
    [kind |-> "Leaf", value |-> value, frequency |-> frequency]

new_branch(frequency, left, right) ==
    [kind |-> "Branch", left |-> left, right |-> right, frequency |-> frequency]

variant_freq(node) == node.frequency

\* the pair with the bigger node first
cmp_pair_bigger_first(self, other) ==
    IF variant_freq(self) < variant_freq(other)
    THEN <<other, self>> ELSE <<self, other>>

cmp_pair(self, other) ==
    IF variant_freq(self) < variant_freq(other)
    THEN <<self, other>> ELSE <<other, self>>

\* the branch given the frequency of the second node popped only
merge_without_sum(n1, n2) ==
    LET pair == cmp_pair(n1, n2)
    IN new_branch(variant_freq(n2), pair[1], pair[2])

\* the body of create_huffman_tree's loop: the branch pushed back
merge(n1, n2) ==
    LET new_freq == variant_freq(n1) + variant_freq(n2)
        pair == cmp_pair(n1, n2)
    IN new_branch(new_freq, pair[1], pair[2])

\* Ord for Node not reversed: the heap's greatest is a node of most frequency
IsHeapTopNotReversed(node, heap) ==
    node \in heap /\ \A m \in heap : variant_freq(node) >= variant_freq(m)

\* Ord for Node putting every leaf before every branch, then by frequency
IsHeapTopLeavesFirst(node, heap) ==
    node \in heap /\ \A m \in heap :
        \/ node.kind = "Leaf" /\ m.kind = "Branch"
        \/ node.kind = m.kind /\ variant_freq(node) <= variant_freq(m)

\* Ord for Node, reversed: the heap's greatest is a node of least frequency
IsHeapTop(node, heap) ==
    node \in heap /\ \A m \in heap : variant_freq(node) <= variant_freq(m)

RECURSIVE Leaves(_)
Leaves(node) ==
    IF node.kind = "Leaf" THEN {node}
    ELSE IF node.kind = "Branch" THEN Leaves(node.left) \cup Leaves(node.right)
    ELSE {}

RECURSIVE LeafFreqSum(_)
LeafFreqSum(node) ==
    IF node.kind = "Leaf" THEN node.frequency
    ELSE IF node.kind = "Branch" THEN LeafFreqSum(node.left) + LeafFreqSum(node.right)
    ELSE 0

----------------------------------------------------------------------------
(* encode.rs: the frequency table, the queue, the code table *)

TableInsert(t, k, v) ==
    [x \in DOMAIN t \cup {k} |-> IF x = k THEN v ELSE t[x]]

\* *frequency_table.entry(sym).or_insert(0) += 1, for the chars from i on
RECURSIVE FreqFold(_, _, _)
FreqFold(s, i, ft) ==
    IF i > Len(s) THEN ft
    ELSE LET sym == s[i]
             old == IF sym \in DOMAIN ft THEN ft[sym] ELSE 0
         IN FreqFold(s, i + 1, TableInsert(ft, sym, old + 1))

init_frequency_table(s) == FreqFold(s, 1, <<>>)

init_symbol_nodes_prio_queue(ft) ==
    {new_leaf(c, ft[c]) : c \in DOMAIN ft}

RECURSIVE generate_encoding(_, _, _)

encode_child(child_node, suffix_code, path, table) ==
    LET _path_vec == Append(path, suffix_code) IN
    IF child_node.kind = "Leaf"
    THEN TableInsert(table, child_node.value, _path_vec)
    ELSE generate_encoding(child_node, _path_vec, table)

\* both children encoded with the suffix 0
generate_encoding_same_suffix(self, path, table) ==
    encode_child(self.right, FALSE, path,
                 encode_child(self.left, FALSE, path, table))

\* called on a Branch only: the Leaf arm panics (GenerateEncoding)
generate_encoding(self, path, table) ==
    encode_child(self.right, TRUE, path,
                 encode_child(self.left, FALSE, path, table))

PrefixFree(t) ==
    \A a, b \in DOMAIN t : a # b => ~IsPrefix(t[a], t[b])

----------------------------------------------------------------------------
(* Actions of generate_encoding_table *)

InitFrequencyTable ==
    /\ pc = "start"
    /\ frequency_table' = init_frequency_table(contents)
    /\ pc' = "freq"
    /\ UNCHANGED <<outcome, contents, prio_queue, tree, encoding_table, file,
                   run, prev_file, merges>>
    /\ UNCHANGED decVars
    /\ UNCHANGED compVars

InitPrioQueue ==
    /\ pc = "freq"
    /\ prio_queue' = init_symbol_nodes_prio_queue(frequency_table)
    /\ pc' = "queue"
    /\ UNCHANGED <<outcome, contents, frequency_table, tree, encoding_table,
                   file, run, prev_file, merges>>
    /\ UNCHANGED decVars
    /\ UNCHANGED compVars

\* create_huffman_tree on an empty queue
TreeEmptyPanic ==
    /\ pc = "queue"
    /\ Cardinality(prio_queue) = 0
    /\ outcome' = "panic"
    /\ pc' = "aborted"
    /\ UNCHANGED <<contents, frequency_table, prio_queue, tree, encoding_table,
                   file, run, prev_file, merges>>
    /\ UNCHANGED decVars
    /\ UNCHANGED compVars

\* one turn of create_huffman_tree's loop
MergeStep ==
    /\ pc = "queue"
    /\ Cardinality(prio_queue) > 1
    /\ \E n1 \in prio_queue :
         /\ IsHeapTop(n1, prio_queue)
         /\ \E n2 \in prio_queue \ {n1} :
              /\ IsHeapTop(n2, prio_queue \ {n1})
              /\ prio_queue' = (prio_queue \ {n1, n2}) \cup {merge(n1, n2)}
    /\ merges' = merges + 1
    /\ UNCHANGED <<pc, outcome, contents, frequency_table, tree,
                   encoding_table, file, run, prev_file>>
    /\ UNCHANGED decVars
    /\ UNCHANGED compVars

\* create_huffman_tree's return
TreeDone ==
    /\ pc = "queue"
    /\ Cardinality(prio_queue) = 1
    /\ tree' = CHOOSE n \in prio_queue : TRUE
    /\ prio_queue' = {}
    /\ pc' = "tree"
    /\ UNCHANGED <<outcome, contents, frequency_table, encoding_table, file,
                   run, prev_file, merges>>
    /\ UNCHANGED decVars
    /\ UNCHANGED compVars

\* tree.generate_encoding(path, &mut encoding_table)
GenerateEncoding ==
    /\ pc = "tree"
    /\ IF tree.kind = "Branch"
       THEN /\ encoding_table' = generate_encoding(tree, <<>>, <<>>)
            /\ pc' = "table"
            /\ UNCHANGED outcome
       ELSE /\ outcome' = "panic"
            /\ pc' = "aborted"
            /\ UNCHANGED encoding_table
    /\ UNCHANGED <<contents, frequency_table, prio_queue, tree, file, run,
                   prev_file, merges>>
    /\ UNCHANGED decVars
    /\ UNCHANGED compVars

----------------------------------------------------------------------------
(* encode.rs: compress, the header text and the packed payload *)

Min(a, b) == IF a < b THEN a ELSE b

\* format!("{}", n) of an unsigned number
RECURSIVE Dec(_)
Dec(n) == IF n < 10 THEN <<CH_0 + n>> ELSE Append(Dec(n \div 10), CH_0 + (n % 10))

\* the UTF-8 bytes of a char below U+0800
Utf8(c) == IF c < 128 THEN <<c>> ELSE <<192 + (c \div 64), 128 + (c % 64)>>

fmt_bitvec(bits) == [i \in 1..Len(bits) |-> IF bits[i] THEN CH_1 ELSE CH_0]

TableLine(symbol, bits) ==
    IF symbol = CH_NL
    THEN <<CH_BSL, CH_n>> \o fmt_bitvec(bits) \o <<CH_NL>>
    ELSE Utf8(symbol) \o fmt_bitvec(bits) \o <<CH_NL>>

\* head_buf and table_buf, the table iterated in the order given
HeaderText(table, order) ==
    Dec(Cardinality(DOMAIN table)) \o <<CH_NL>>
        \o Flatten([i \in DOMAIN order |-> TableLine(order[i], table[order[i]])])

\* bit_vec_buff: the codes of the input's chars, in input order
EncodedBits(s, table) ==
    Flatten([i \in DOMAIN s |->
                IF s[i] \in DOMAIN table THEN table[s[i]] ELSE <<>>])

\* chunk.load::<u8>() of an Lsb0 chunk: the first bit is the least significant
RECURSIVE load_u8(_)
load_u8(chunk) ==
    IF chunk = <<>> THEN 0
    ELSE (IF Head(chunk) THEN 1 ELSE 0) + 2 * load_u8(Tail(chunk))

\* bit_vec_buff.chunks(8), each loaded as a byte
PackBytes(bits) ==
    [k \in 1..((Len(bits) + 7) \div 8) |->
        load_u8(SubSeq(bits, 8 * (k - 1) + 1, Min(8 * k, Len(bits))))]

\* compress, from the table on: the header, then the payload
WriteFile ==
    /\ pc = "table"
    /\ \E order \in Perms(DOMAIN encoding_table) :
         file' = HeaderText(encoding_table, order)
                    \o PackBytes(EncodedBits(contents, encoding_table))
    /\ pc' = "compressed"
    /\ UNCHANGED <<outcome, contents, frequency_table, prio_queue, tree,
                   encoding_table, run, prev_file, merges>>
    /\ UNCHANGED decVars
    /\ UNCHANGED compVars

\* compress is run a second time on the same input
Rerun ==
    /\ pc = "compressed"
    /\ run = 1
    /\ run' = 2
    /\ prev_file' = file
    /\ file' = <<>>
    /\ frequency_table' = <<>>
    /\ prio_queue' = {}
    /\ tree' = NoTree
    /\ encoding_table' = <<>>
    /\ merges' = 0
    /\ pc' = "start"
    /\ UNCHANGED <<outcome, contents>>
    /\ UNCHANGED decVars
    /\ UNCHANGED compVars

----------------------------------------------------------------------------
(* decode.rs: parse_header *)

IsCont(b) == 128 <= b /\ b <= 191

\* the bytes are UTF-8 text of chars below U+0800
RECURSIVE IsUtf8(_)
IsUtf8(bs) ==
    IF bs = <<>> THEN TRUE
    ELSE IF bs[1] < 128 THEN IsUtf8(Tail(bs))
    ELSE /\ 194 <= bs[1] /\ bs[1] <= 223
         /\ Len(bs) >= 2
         /\ IsCont(bs[2])
         /\ IsUtf8(SubSeq(bs, 3, Len(bs)))

\* is_char_boundary(i), i a byte offset from 0
IsCharBoundary(bs, i) ==
    \/ i = 0
    \/ i = Len(bs)
    \/ i < Len(bs) /\ ~IsCont(bs[i + 1])

\* the offset just after the line that starts at offset pos (read_line)
LineEnd(f, pos) ==
    IF \E j \in (pos + 1)..Len(f) : f[j] = CH_NL
    THEN CHOOSE j \in (pos + 1)..Len(f) :
             f[j] = CH_NL /\ \A k \in (pos + 1)..(j - 1) : f[k] # CH_NL
    ELSE Len(f)

\* String::pop: the text without its last char
PopChar(line) ==
    IF line = <<>> THEN <<>>
    ELSE IF IsCont(line[Len(line)]) THEN SubSeq(line, 1, Len(line) - 2)
    ELSE SubSeq(line, 1, Len(line) - 1)

IsDigit(b) == CH_0 <= b /\ b <= CH_1 + 8

RECURSIVE DigitsValue(_)
DigitsValue(ds) ==
    IF ds = <<>> THEN 0
    ELSE 10 * DigitsValue(SubSeq(ds, 1, Len(ds) - 1)) + (ds[Len(ds)] - CH_0)

\* line.parse::<u8>(): the number, or -1 for an Err
ParseU8(line) ==
    LET ds == IF line # <<>> /\ line[1] = CH_PLUS THEN Tail(line) ELSE line IN
    IF ds = <<>> \/ \E i \in DOMAIN ds : ~IsDigit(ds[i]) THEN -1
    ELSE IF DigitsValue(ds) > 255 THEN -1
    ELSE DigitsValue(ds)

\* the loop of read_line calls: [ok, raw, pos]
RECURSIVE ReadLines(_, _, _, _)
ReadLines(f, pos, k, raw) ==
    IF k = 0 THEN [ok |-> TRUE, raw |-> raw, pos |-> pos]
    ELSE LET e == LineEnd(f, pos)
             buf_line == SubSeq(f, pos + 1, e)
         IN IF ~IsUtf8(buf_line) THEN [ok |-> FALSE, raw |-> raw, pos |-> e]
            ELSE ReadLines(f, e, k - 1, raw \o buf_line)

\* parse_header up to the call of Reconst::from_str
ParseHeader ==
    /\ pc = "compressed"
    /\ LET e == LineEnd(file, 0)
           first == SubSeq(file, 1, e)
           line == PopChar(first)
           count == ParseU8(line)
           rd == ReadLines(file, e, count, <<>>)
       IN IF ~IsUtf8(first)
          THEN /\ outcome' = "err"
               /\ pc' = "done"
               /\ rpos' = e
               /\ UNCHANGED <<entry_count, raw_table>>
          ELSE IF count < 0
          THEN /\ outcome' = "panic"
               /\ pc' = "done"
               /\ rpos' = e
               /\ UNCHANGED <<entry_count, raw_table>>
          ELSE IF ~rd.ok
          THEN /\ outcome' = "err"
               /\ pc' = "done"
               /\ rpos' = rd.pos
               /\ entry_count' = count
               /\ raw_table' = rd.raw
          ELSE /\ pc' = "from_str"
               /\ rpos' = rd.pos
               /\ entry_count' = count
               /\ raw_table' = rd.raw
               /\ UNCHANGED outcome
    /\ UNCHANGED <<contents, file, run, prev_file, dec_table, pending,
                   huffman_tree, bv, decoded>>
    /\ UNCHANGED encVars
    /\ UNCHANGED compVars

----------------------------------------------------------------------------
(* decode.rs: Reconst::huffman_table and Reconst::from_str *)

PanicValue == [kind |-> "Panic"]

\* str::lines: the pieces between newlines, a "\r" before the newline dropped
RECURSIVE Lines(_)
Lines(raw) ==
    IF raw = <<>> THEN <<>>
    ELSE LET e == LineEnd(raw, 0)
             ended == raw[e] = CH_NL
             body == IF ended THEN SubSeq(raw, 1, e - 1) ELSE raw
             line == IF ended /\ body # <<>> /\ body[Len(body)] = CH_CR
                     THEN SubSeq(body, 1, Len(body) - 1) ELSE body
         IN <<line>> \o Lines(SubSeq(raw, e + 1, Len(raw)))

\* the loop of huffman_table over the lines from i on: the table, or the
\* panic of the slice &line[2..] or &line[1..]
RECURSIVE TableFold(_, _, _)
TableFold(ls, i, table) ==
    IF i > Len(ls) THEN [panic |-> FALSE, table |-> table]
    ELSE LET line == ls[i] IN
         IF line = <<>> THEN [panic |-> FALSE, table |-> table]
         ELSE IF line[1] = CH_BSL
         THEN IF Len(line) < 2 \/ ~IsCharBoundary(line, 2)
              THEN [panic |-> TRUE, table |-> table]
              ELSE TableFold(ls, i + 1,
                       TableInsert(table, CH_NL, SubSeq(line, 3, Len(line))))
         ELSE IF ~IsCharBoundary(line, 1) THEN [panic |-> TRUE, table |-> table]
         ELSE TableFold(ls, i + 1,
                  TableInsert(table, line[1], SubSeq(line, 2, Len(line))))

huffman_table(raw) == TableFold(Lines(raw), 1, <<>>)

\* from_str without its assert!
CountMatchesAlways(table, count) == TRUE

\* assert!(encoding_table.len() as u8 == entry_count)
CountMatches(table, count) == Cardinality(DOMAIN table) % 256 = count

----------------------------------------------------------------------------
(* decode.rs: Root, Node, new_traverse, walk, tread *)

None == [kind |-> "None"]

DefaultRoot == [left |-> None, right |-> None]

some_boxed_leaf(value) == [kind |-> "Leaf", value |-> value]

some_boxed_branch(root) == [kind |-> "Branch", root |-> root]

RECURSIVE new_traverse(_, _, _)

\* extend! starting a new branch whatever is there
extend_anew(sub, code, symbol_value) ==
    LET r == new_traverse(None, Tail(code), symbol_value)
    IN IF r = PanicValue THEN PanicValue ELSE some_boxed_branch(r)

\* extend!: the new value of root.left or root.right, or a panic
extend(sub, code, symbol_value) ==
    IF sub.kind = "Leaf" THEN PanicValue
    ELSE LET r == new_traverse(IF sub.kind = "Branch" THEN sub.root ELSE None,
                               Tail(code), symbol_value)
         IN IF r = PanicValue THEN PanicValue ELSE some_boxed_branch(r)

\* bootstrap is None or a root; the result is a root or a panic
new_traverse(bootstrap, code, symbol_value) ==
    LET root == IF bootstrap = None THEN DefaultRoot ELSE bootstrap IN
    IF Len(code) = 1
    THEN IF code[1] = CH_1
         THEN [root EXCEPT !.right = some_boxed_leaf(symbol_value)]
         ELSE IF code[1] = CH_0
         THEN [root EXCEPT !.left = some_boxed_leaf(symbol_value)]
         ELSE PanicValue
    ELSE IF code = <<>> THEN PanicValue
    ELSE IF code[1] = CH_1
         THEN LET x == extend(root.right, code, symbol_value)
              IN IF x = PanicValue THEN PanicValue ELSE [root EXCEPT !.right = x]
         ELSE IF code[1] = CH_0
         THEN LET x == extend(root.left, code, symbol_value)
              IN IF x = PanicValue THEN PanicValue ELSE [root EXCEPT !.left = x]
         ELSE PanicValue

\* Root::walk: the child, None standing for the panic of walk!
walk(root, code_elem) == IF code_elem THEN root.right ELSE root.left

\* read_until(b'\0'): the offset just after the bytes read from offset pos
ReadUntilZero(f, pos) ==
    IF \E j \in (pos + 1)..Len(f) : f[j] = 0
    THEN CHOOSE j \in (pos + 1)..Len(f) :
             f[j] = 0 /\ \A k \in (pos + 1)..(j - 1) : f[k] # 0
    ELSE Len(f)

\* BitVec::<u8, Lsb0>::from_vec
BitsLsb0(bytes) ==
    [i \in 1..(8 * Len(bytes)) |->
        (bytes[((i - 1) \div 8) + 1] \div (2 ^ ((i - 1) % 8))) % 2 = 1]

\* tread's loop from bit i on: the decoded string, or a panic, with walk_root
\* as the loop leaves it (None when the walk is back at the root)
RECURSIVE TreadFrom(_, _, _, _, _)
TreadFrom(huffman, code_path, i, walk_root, out) ==
    IF i > Len(code_path)
    THEN [panic |-> FALSE, out |-> out, walk_root |-> walk_root]
    ELSE LET leg == IF walk_root = None THEN huffman ELSE walk_root
             node == walk(leg, code_path[i])
         IN IF node.kind = "None"
            THEN [panic |-> TRUE, out |-> out, walk_root |-> walk_root]
            ELSE IF node.kind = "Leaf"
            THEN TreadFrom(huffman, code_path, i + 1, None, Append(out, node.value))
            ELSE TreadFrom(huffman, code_path, i + 1, node.root, out)

tread(huffman, code_path) == TreadFrom(huffman, code_path, 1, None, <<>>)

----------------------------------------------------------------------------
(* Actions of decompress after the header lines are read *)

\* Reconst::from_str up to the call of Root::from_table
FromStr ==
    /\ pc = "from_str"
    /\ LET parsed == huffman_table(raw_table)
           t == parsed.table
       IN
       IF parsed.panic
       THEN /\ outcome' = "panic"
            /\ pc' = "done"
            /\ UNCHANGED <<dec_table, pending, huffman_tree>>
       ELSE IF ~CountMatches(t, entry_count)
       THEN /\ outcome' = "panic"
            /\ pc' = "done"
            /\ dec_table' = t
            /\ UNCHANGED <<pending, huffman_tree>>
       ELSE /\ dec_table' = t
            /\ pending' = DOMAIN t
            /\ huffman_tree' = DefaultRoot
            /\ pc' = "from_table"
            /\ UNCHANGED outcome
    /\ UNCHANGED <<contents, file, run, prev_file, entry_count, raw_table,
                   rpos, bv, decoded>>
    /\ UNCHANGED encVars
    /\ UNCHANGED compVars

\* one turn of the fold of Root::from_table
FromTableInsert ==
    /\ pc = "from_table"
    /\ \E key \in pending :
         LET r == new_traverse(huffman_tree, dec_table[key], key) IN
         IF r = PanicValue
         THEN /\ outcome' = "panic"
              /\ pc' = "done"
              /\ UNCHANGED <<pending, huffman_tree>>
         ELSE /\ huffman_tree' = r
              /\ pending' = pending \ {key}
              /\ UNCHANGED <<pc, outcome>>
    /\ UNCHANGED <<contents, file, run, prev_file, entry_count, raw_table,
                   rpos, dec_table, bv, decoded>>
    /\ UNCHANGED encVars
    /\ UNCHANGED compVars

\* write_decoded, once from_table has returned
WriteDecoded ==
    /\ pc = "from_table"
    /\ pending = {}
    /\ LET e == ReadUntilZero(file, rpos)
           encoded_content == SubSeq(file, rpos + 1, e)
           r == tread(huffman_tree, BitsLsb0(encoded_content))
       IN /\ rpos' = e
          /\ bv' = BitsLsb0(encoded_content)
          /\ IF r.panic
             THEN /\ outcome' = "panic"
                  /\ UNCHANGED decoded
             ELSE /\ outcome' = "ok"
                  /\ decoded' = r.out
    /\ pc' = "done"
    /\ UNCHANGED <<contents, file, run, prev_file, entry_count, raw_table,
                   dec_table, pending, huffman_tree>>
    /\ UNCHANGED encVars
    /\ UNCHANGED compVars

----------------------------------------------------------------------------
InitCommon ==
    /\ outcome = "none"
    /\ frequency_table = <<>>
    /\ prio_queue = {}
    /\ tree = NoTree
    /\ encoding_table = <<>>
    /\ file = <<>>
    /\ run = 1
    /\ prev_file = <<>>
    /\ entry_count = 0
    /\ raw_table = <<>>
    /\ rpos = 0
    /\ dec_table = <<>>
    /\ pending = {}
    /\ huffman_tree = NoTree
    /\ bv = <<>>
    /\ merges = 0
    /\ current_freq = 0
    /\ max_freq = 0
    /\ current_root = NoTree
    /\ decoded = <<>>

InitEncode ==
    /\ pc = "start"
    /\ contents \in InputsUpTo(MaxLen)
    /\ InitCommon

NextEncode ==
    \/ InitFrequencyTable
    \/ InitPrioQueue
    \/ TreeEmptyPanic
    \/ MergeStep
    \/ TreeDone
    \/ GenerateEncoding

SpecEncode == InitEncode /\ [][NextEncode]_vars

NextDecode ==
    \/ ParseHeader
    \/ FromStr
    \/ FromTableInsert
    \/ WriteDecoded

Next ==
    \/ NextEncode
    \/ WriteFile
    \/ NextDecode

Spec == InitEncode /\ [][Next]_vars

NextTwoRuns ==
    \/ NextEncode
    \/ WriteFile
    \/ Rerun

InitTwoRuns ==
    /\ pc = "start"
    /\ contents \in InputsUpTo(MaxLenRerun)
    /\ InitCommon

SpecTwoRuns == InitTwoRuns /\ [][NextTwoRuns]_vars

----------------------------------------------------------------------------
(* The header alone: a code table is written and parsed back *)

\* keys of the tables: 'a', newline, backslash, e-acute (two bytes in UTF-8)
TableKeys == {97, 10, 92, 233}

BitStrings(len) == UNION {[1..n -> BOOLEAN] : n \in 1..len}

CodeTables == UNION {[K -> BitStrings(MaxCode)] : K \in SUBSET TableKeys}

InitHeader ==
    /\ pc = "table"
    /\ contents = <<>>
    /\ outcome = "none"
    /\ frequency_table = <<>>
    /\ prio_queue = {}
    /\ tree = NoTree
    /\ encoding_table \in CodeTables
    /\ file = <<>>
    /\ run = 1
    /\ prev_file = <<>>
    /\ entry_count = 0
    /\ raw_table = <<>>
    /\ rpos = 0
    /\ dec_table = <<>>
    /\ pending = {}
    /\ huffman_tree = NoTree
    /\ bv = <<>>
    /\ merges = 0
    /\ current_freq = 0
    /\ max_freq = 0
    /\ current_root = NoTree
    /\ decoded = <<>>

NextHeader ==
    \/ WriteFile
    \/ ParseHeader
    \/ FromStr

SpecHeader == InitHeader /\ [][NextHeader]_vars

----------------------------------------------------------------------------
(* decompress alone: the file is any count line, header lines and payload *)

CountLinePool ==
    {Dec(n) \o <<CH_NL>> : n \in 0..(MaxLines + 1)} \cup {<<97, CH_NL>>}

\* a0 a1 a01 a00 b0 b1 b01 b10, \n1 \n01 (escaped newline), the empty line,
\* a (no code), a2 (no bit), \ (no code), e-acute 0
LinePool ==
    { <<97, 48, CH_NL>>, <<97, 49, CH_NL>>, <<97, 48, 49, CH_NL>>,
      <<97, 48, 48, CH_NL>>,
      <<98, 48, CH_NL>>, <<98, 49, CH_NL>>, <<98, 48, 49, CH_NL>>,
      <<98, 49, 48, CH_NL>>,
      <<CH_BSL, CH_n, 49, CH_NL>>, <<CH_BSL, CH_n, 48, 49, CH_NL>>,
      <<CH_NL>>, <<97, CH_NL>>, <<97, 50, CH_NL>>, <<CH_BSL, CH_NL>>,
      <<195, 169, 48, CH_NL>> }

PayloadPool == {<<>>, <<1>>, <<2>>}

DecodeFiles ==
    {c \o Flatten(ls) \o p :
        c \in CountLinePool,
        ls \in UNION {[1..n -> LinePool] : n \in 0..MaxLines},
        p \in PayloadPool}

InitDecode ==
    /\ pc = "compressed"
    /\ contents = <<>>
    /\ outcome = "none"
    /\ frequency_table = <<>>
    /\ prio_queue = {}
    /\ tree = NoTree
    /\ encoding_table = <<>>
    /\ file \in DecodeFiles
    /\ run = 1
    /\ prev_file = <<>>
    /\ entry_count = 0
    /\ raw_table = <<>>
    /\ rpos = 0
    /\ dec_table = <<>>
    /\ pending = {}
    /\ huffman_tree = NoTree
    /\ bv = <<>>
    /\ merges = 0
    /\ current_freq = 0
    /\ max_freq = 0
    /\ current_root = NoTree
    /\ decoded = <<>>

SpecDecode == InitDecode /\ [][NextDecode]_vars

----------------------------------------------------------------------------
(* generate_encoding_table on inputs with unequal frequencies *)

\* 'd', 'b', 'a', 'e': the symbols of it_generates_correct_encoding
TreeSymbols == <<100, 98, 97, 101>>

Repeat(c, n) == [i \in 1..n |-> c]

\* the inputs d..db..ba..ae..e, "dddddbbbaae" among them
BlockInputs ==
    {Flatten([k \in 1..Len(TreeSymbols) |-> Repeat(TreeSymbols[k], f[k])]) :
        f \in [1..Len(TreeSymbols) -> 0..MaxFreq]}

\* "huffman"
Huffman == <<104, 117, 102, 102, 109, 97, 110>>

InitTree ==
    /\ pc = "start"
    /\ contents \in BlockInputs \cup {Huffman}
    /\ InitCommon

SpecTree == InitTree /\ [][NextEncode]_vars

----------------------------------------------------------------------------
(* Root::from_table and tread on tables given directly *)

\* 'h', 'f', newline
ReconstKeys == {104, 102, 10}

\* the code strings of '0' and '1' of at most len characters, "" among them
CodeStrings(len) == UNION {[1..n -> {CH_0, CH_1}] : n \in 0..len}

ReconstTables ==
    UNION {[K -> CodeStrings(MaxCode)] : K \in SUBSET ReconstKeys}

\* the table of basic_tree()
BasicTable ==
    [c \in {104, 102, 109, 110, 97, 117, 10} |->
        CASE c = 104 -> <<CH_0, CH_1, CH_0>>
          [] c = 102 -> <<CH_1, CH_1>>
          [] c = 109 -> <<CH_0, CH_1, CH_1>>
          [] c = 110 -> <<CH_0, CH_0, CH_0>>
          [] c = 97  -> <<CH_1, CH_0, CH_0>>
          [] c = 117 -> <<CH_0, CH_0, CH_1>>
          [] c = 10  -> <<CH_1, CH_0, CH_1>>]

InitReconst ==
    /\ pc = "from_table"
    /\ outcome = "none"
    /\ contents = <<>>
    /\ frequency_table = <<>>
    /\ prio_queue = {}
    /\ tree = NoTree
    /\ encoding_table = <<>>
    /\ file \in PayloadPool
    /\ run = 1
    /\ prev_file = <<>>
    /\ dec_table \in ReconstTables \cup {BasicTable}
    /\ entry_count = Cardinality(DOMAIN dec_table)
    /\ raw_table = <<>>
    /\ rpos = 0
    /\ pending = DOMAIN dec_table
    /\ huffman_tree = DefaultRoot
    /\ bv = <<>>
    /\ merges = 0
    /\ current_freq = 0
    /\ max_freq = 0
    /\ current_root = NoTree
    /\ decoded = <<>>

NextReconst ==
    \/ FromTableInsert
    \/ WriteDecoded

SpecReconst == InitReconst /\ [][NextReconst]_vars

----------------------------------------------------------------------------
(* compress, then decompress, on inputs whose payload has several bytes *)

\* bits per payload byte: bit_buffer.chunks(8)
ChunkBits == 8

\* 'a', 'b'
RunSymbols == {97, 98}

\* runs of ChunkBits equal symbols: with one-bit codes each run is one
\* payload byte, 0x00 or 0xFF
RunInputs ==
    UNION {{Flatten([k \in 1..n |-> Repeat(r[k], ChunkBits)]) :
               r \in [1..n -> RunSymbols]} : n \in 0..MaxRuns}

InitLong ==
    /\ pc = "start"
    /\ contents \in RunInputs
    /\ InitCommon

SpecLong == InitLong /\ [][Next]_vars

----------------------------------------------------------------------------
(* create_huffman_tree: the loop of encode.rs and the loop of compression.rs *)
(* on the same queues of leaves.  A compression.rs Root is written as the    *)
(* Branch node that wraps it; its cmp_pair and Ord for Node are those of     *)
(* encode.rs.                                                                *)

\* crate::max_freq, which compression.rs's tests pass as max_freq: the sum of
\* the frequencies of the table
RECURSIVE FreqSum(_, _)
FreqSum(ft, keys) ==
    IF keys = {} THEN 0
    ELSE LET k == CHOOSE x \in keys : TRUE
         IN ft[k] + FreqSum(ft, keys \ {k})

crate_max_freq(ft) == FreqSum(ft, DOMAIN ft)

\* compression.rs Root::default(): no children, frequency 0
DefaultEmptyRoot == new_branch(0, NoTree, NoTree)

\* compression.rs create_huffman_tree up to its loop
CreateTreeEnter ==
    /\ pc = "c_entry"
    /\ current_freq' = 0
    /\ current_root' = DefaultEmptyRoot
    /\ IF Cardinality(prio_queue) = 0
       THEN /\ tree' = DefaultEmptyRoot
            /\ pc' = "c_returned"
       ELSE /\ pc' = "c_loop"
            /\ UNCHANGED tree
    /\ UNCHANGED <<outcome, contents, frequency_table, prio_queue,
                   encoding_table, file, run, prev_file, merges, max_freq>>
    /\ UNCHANGED decVars

\* one turn of its loop: both pops are made before the pattern is matched, so
\* a turn that finds fewer than two nodes drops what it popped and changes
\* nothing else
CreateTreeTurn ==
    /\ pc = "c_loop"
    /\ current_freq < max_freq
    /\ IF Cardinality(prio_queue) >= 2
       THEN \E n1 \in prio_queue :
              /\ IsHeapTop(n1, prio_queue)
              /\ \E n2 \in prio_queue \ {n1} :
                   /\ IsHeapTop(n2, prio_queue \ {n1})
                   /\ current_root' = merge(n1, n2)
                   /\ current_freq' = variant_freq(n1) + variant_freq(n2)
                   /\ prio_queue' =
                        (prio_queue \ {n1, n2}) \cup {merge(n1, n2)}
                   /\ merges' = merges + 1
       ELSE /\ prio_queue' = {}
            /\ UNCHANGED <<current_root, current_freq, merges>>
    /\ UNCHANGED <<pc, outcome, contents, frequency_table, tree,
                   encoding_table, file, run, prev_file, max_freq>>
    /\ UNCHANGED decVars

\* the loop's exit and the return of current_root
CreateTreeReturn ==
    /\ pc = "c_loop"
    /\ ~(current_freq < max_freq)
    /\ tree' = current_root
    /\ pc' = "c_returned"
    /\ UNCHANGED <<outcome, contents, frequency_table, prio_queue,
                   encoding_table, file, run, prev_file, merges>>
    /\ UNCHANGED compVars
    /\ UNCHANGED decVars

\* create_huffman_tree is called, in encode.rs ("queue") or in compression.rs
\* ("c_entry", max_freq the sum of the frequencies), with the queue of the
\* leaves of an input's frequency table
InitCreateTree ==
    /\ pc \in {"queue", "c_entry"}
    /\ outcome = "none"
    /\ contents \in BlockInputs
    /\ frequency_table = init_frequency_table(contents)
    /\ prio_queue = init_symbol_nodes_prio_queue(frequency_table)
    /\ tree = NoTree
    /\ encoding_table = <<>>
    /\ file = <<>>
    /\ run = 1
    /\ prev_file = <<>>
    /\ entry_count = 0
    /\ raw_table = <<>>
    /\ rpos = 0
    /\ dec_table = <<>>
    /\ pending = {}
    /\ huffman_tree = NoTree
    /\ bv = <<>>
    /\ decoded = <<>>
    /\ merges = 0
    /\ current_freq = 0
    /\ max_freq = IF pc = "c_entry" THEN crate_max_freq(frequency_table) ELSE 0
    /\ current_root = NoTree

NextCreateTree ==
    \/ TreeEmptyPanic
    \/ MergeStep
    \/ TreeDone
    \/ CreateTreeEnter
    \/ CreateTreeTurn
    \/ CreateTreeReturn

SpecCreateTree == InitCreateTree /\ [][NextCreateTree]_vars

----------------------------------------------------------------------------
(* Properties *)

Count(s, c) == Cardinality({i \in DOMAIN s : s[i] = c})

Chars(s) == {s[i] : i \in DOMAIN s}

FmtTable(t) == [c \in DOMAIN t |-> fmt_bitvec(t[c])]

\* C1: round trip.  When decompress has ended on the file compress wrote for
\* the input, it has ended well and the decoded string is the input.
RoundTrip ==
    pc = "done" => outcome = "ok" /\ decoded = contents

\* C2: header round trip.  Once the header written for a code table has been
\* read back (parse_header, then huffman_table in from_str), the table parsed
\* is the table written, each code as its string of '0' and '1'.
HeaderRoundTrip ==
    pc \in {"from_table", "done"} => dec_table = FmtTable(encoding_table)

\* C3: prefix-free law.  In the table generate_encoding_table returns, no
\* symbol's code is a prefix of, or equal to, the code of another symbol.
PrefixFreeLaw ==
    pc = "table" => PrefixFree(encoding_table)

PrefixFreeWitness ==
    /\ pc = "table"
    /\ Cardinality(DOMAIN encoding_table) >= 3
    /\ \E a, b \in DOMAIN encoding_table :
         Len(encoding_table[a]) = 1 /\ Len(encoding_table[b]) >= 2

\* C4: frequency invariant.  The frequency table holds exactly the symbols of
\* the input, each with its number of occurrences; the root create_huffman_tree
\* returns has the sum of its leaves' frequencies as its frequency, and that
\* sum is the length of the input.
FrequencyInvariant ==
    /\ pc \notin {"start"} =>
         /\ DOMAIN frequency_table = Chars(contents)
         /\ \A c \in Chars(contents) : frequency_table[c] = Count(contents, c)
    /\ pc \in {"tree", "table"} =>
         /\ variant_freq(tree) = LeafFreqSum(tree)
         /\ LeafFreqSum(tree) = Len(contents)

FrequencyWitness ==
    /\ pc = "tree"
    /\ tree.kind = "Branch"
    /\ Cardinality(Leaves(tree)) >= 3
    /\ \E c \in DOMAIN frequency_table : frequency_table[c] >= 2
    /\ variant_freq(tree) = Len(contents)

\* C5: determinism.  A second run of compress on the same input writes the
\* same bytes, header and payload, as the first.
Determinism ==
    (run = 2 /\ pc = "compressed") => file = prev_file

\* C6: single-symbol input.  For an input of k >= 1 repetitions of one symbol
\* a, generate_encoding_table returns {a: "0"}, and decoding gives the input.
SingleSymbolCode ==
    (contents # <<>> /\ Cardinality(Chars(contents)) = 1
        /\ pc \notin {"start", "freq", "queue", "tree"}) =>
      /\ outcome # "panic"
      /\ encoding_table = [c \in Chars(contents) |-> <<FALSE>>]
      /\ pc = "done" => decoded = contents

\* C7: empty input.  compress of the empty string does not fail; the file it
\* writes is the entry count 0 and no payload.
EmptyInputCompresses ==
    contents = <<>> =>
      /\ pc # "aborted"
      /\ pc = "compressed" => file = <<CH_0, CH_NL>>

\* C8: padding boundary.  When the number of encoded bits is not a multiple
\* of 8, tread emits nothing for the pad bits of the last byte: as many
\* symbols are decoded as were encoded.
PaddingBoundary ==
    (pc = "done" /\ outcome = "ok"
        /\ Len(EncodedBits(contents, encoding_table)) % 8 # 0) =>
      Len(decoded) = Len(contents)

\* C9: conflict detection.  Root::from_table returns a tree only for a table
\* in which no code is a prefix of, or equal to, another's, whatever the order
\* of insertion.
ConflictsDetected ==
    (pc = "from_table" /\ pending = {}) => PrefixFree(dec_table)

\* C10: entry count check.  Reconst::from_str gets past its check of the
\* count, to build and return a tree, only when the number of distinct entries
\* parsed from the header lines is the count declared on the first line.
EntryCountChecked ==
    (pc = "from_table" \/ (pc = "done" /\ huffman_tree # NoTree)) =>
      /\ ~huffman_table(raw_table).panic
      /\ Cardinality(DOMAIN huffman_table(raw_table).table) = entry_count

\* from_str has failed on a header with as many lines as declared, two of
\* them for the same symbol
EntryCountWitness ==
    /\ pc = "done"
    /\ outcome = "panic"
    /\ huffman_tree = NoTree
    /\ entry_count = 2
    /\ Len(Lines(raw_table)) = 2
    /\ ~huffman_table(raw_table).panic
    /\ Cardinality(DOMAIN huffman_table(raw_table).table) = 1

\* C11: errors are values.  Whatever malformed file decompress is given (a
\* count line that is not a number, a count that does not match the entries,
\* a code character other than 0 and 1, an empty code, conflicting codes, a
\* bit that steps into a missing child), it ends with a result, Ok or Err; it
\* never ends by a panic.
ErrorsAreValues ==
    pc = "done" => outcome \in {"ok", "err"}

\* C12: code length follows frequency.  In the table generate_encoding_table
\* returns for an input of two or more distinct symbols, a symbol of strictly
\* higher frequency never has a longer code than a symbol of strictly lower
\* frequency, whichever nodes the queue pops among equals.
CodeLengthFollowsFrequency ==
    pc = "table" =>
      \A a, b \in DOMAIN encoding_table :
        frequency_table[a] > frequency_table[b] =>
          Len(encoding_table[a]) <= Len(encoding_table[b])

\* "huffman": 'f' (twice) has a shorter code than some symbol that occurs once
CodeLengthWitness ==
    /\ pc = "table"
    /\ contents = Huffman
    /\ frequency_table[102] = 2
    /\ \E s \in DOMAIN encoding_table :
         frequency_table[s] = 1 /\ Len(encoding_table[102]) < Len(encoding_table[s])

\* the bits a code string of '0' and '1' stands for
CodeBits(code) == [i \in DOMAIN code |-> code[i] = CH_1]

WellFormedCodes(t) ==
    \A c \in DOMAIN t :
      t[c] # <<>> /\ \A i \in DOMAIN t[c] : t[c][i] \in {CH_0, CH_1}

\* Root::walk along bits from root passes through branches only and ends at
\* the leaf of symbol
RECURSIVE WalkEndsAtLeaf(_, _, _)
WalkEndsAtLeaf(root, bits, symbol) ==
    LET node == walk(root, Head(bits)) IN
    IF Len(bits) = 1
    THEN node = some_boxed_leaf(symbol)
    ELSE node.kind = "Branch" /\ WalkEndsAtLeaf(node.root, Tail(bits), symbol)

\* C13: tree reconstruction.  For a table of non-empty codes of 0 and 1, no
\* code a prefix of another, Root::from_table returns a tree, whatever the
\* order of insertion; in it the walk along the bits of each symbol's code
\* passes through branches only and ends at the leaf of that symbol, and tread
\* on exactly these bits returns the one-symbol string.
ReconstructionCorrect ==
    (WellFormedCodes(dec_table) /\ PrefixFree(dec_table)
        /\ pc \in {"from_table", "done"}) =>
      /\ pending # {} => pc = "from_table"
      /\ pending = {} =>
           \A s \in DOMAIN dec_table :
             /\ WalkEndsAtLeaf(huffman_tree, CodeBits(dec_table[s]), s)
             /\ ~tread(huffman_tree, CodeBits(dec_table[s])).panic
             /\ tread(huffman_tree, CodeBits(dec_table[s])).out = <<s>>

\* from_table has returned the tree of basic_tree(), 'f' at right.right
ReconstructionWitness ==
    /\ pc = "from_table"
    /\ pending = {}
    /\ dec_table = BasicTable
    /\ huffman_tree.right.kind = "Branch"
    /\ huffman_tree.right.root.right = some_boxed_leaf(102)

\* C14: incomplete final symbol.  When the bits handed to tread end while the
\* walk is at a branch below the root, decoding fails: it ends well only with
\* the walk back at the root.
IncompleteSymbolFails ==
    (pc = "done" /\ outcome = "ok") =>
      tread(huffman_tree, bv).walk_root = None

\* C15: unpack returns what pack wrote.  The bits write_decoded hands to tread
\* hold the k-th bit compress packed at position k, for every k up to the
\* number of bits of the concatenated codes, whatever bytes the payload has.
UnpackReturnsPack ==
    (pc = "done" /\ huffman_tree # NoTree /\ pending = {}) =>
      LET packed == EncodedBits(contents, encoding_table) IN
        /\ Len(bv) >= Len(packed)
        /\ \A k \in 1..Len(packed) : bv[k] = packed[k]

\* C16: minimum-pair selection.  The queue orders nodes by frequency only,
\* leaves and branches alike: in every merge step of create_huffman_tree the
\* two nodes taken off the queue, n1 first, have n1's frequency no greater
\* than n2's and n2's no greater than that of any node left in the queue, and
\* the branch of the two is what is pushed back.
MinPairPopped ==
    [][(pc = "queue" /\ prio_queue' # prio_queue /\ pc' = "queue") =>
         \E n1 \in prio_queue : \E n2 \in prio_queue \ {n1} :
           /\ prio_queue' = (prio_queue \ {n1, n2}) \cup {merge(n1, n2)}
           /\ variant_freq(n1) <= variant_freq(n2)
           /\ \A m \in prio_queue \ {n1, n2} :
                variant_freq(n2) <= variant_freq(m)]_vars

\* a branch has been popped and merged while a leaf no lighter stays queued
MinPairWitness ==
    /\ pc = "queue"
    /\ \E br \in prio_queue :
         /\ br.kind = "Branch"
         /\ br.left.kind = "Branch" \/ br.right.kind = "Branch"
         /\ \E lf \in prio_queue :
              lf.kind = "Leaf" /\ variant_freq(lf) > variant_freq(br.right)

\* in node and below, every branch has a left child no heavier than its right
\* child and the sum of its children's frequencies as its frequency
RECURSIVE BranchesOrdered(_)
BranchesOrdered(node) ==
    node.kind = "Branch" =>
      /\ variant_freq(node.left) <= variant_freq(node.right)
      /\ variant_freq(node) = variant_freq(node.left) + variant_freq(node.right)
      /\ BranchesOrdered(node.left)
      /\ BranchesOrdered(node.right)

\* C17: left is the lighter child.  In every branch create_huffman_tree
\* builds, the left child's frequency is no greater than the right child's and
\* the branch's frequency is their sum; so a leaf merged in the last step with
\* a strictly heavier subtree has the one-bit code 0.
LeftIsLighter ==
    /\ \A n \in prio_queue : BranchesOrdered(n)
    /\ pc \in {"tree", "table"} => BranchesOrdered(tree)
    /\ pc = "table" =>
         \A lf \in {tree.left, tree.right} : \A sub \in {tree.left, tree.right} :
           (lf.kind = "Leaf" /\ variant_freq(lf) < variant_freq(sub)) =>
             encoding_table[lf.value] = <<FALSE>>

\* "dddddbbbaae": 'd' (5) is merged last with the subtree of b, a, e (6)
LeftIsLighterWitness ==
    /\ pc = "table"
    /\ contents = <<100, 100, 100, 100, 100, 98, 98, 98, 97, 97, 101>>
    /\ tree.left = new_leaf(100, 5)
    /\ variant_freq(tree.right) = 6
    /\ encoding_table[100] = <<FALSE>>

\* C18: tree building terminates.  Called with a queue of n >= 1 leaves,
\* create_huffman_tree merges a pair at every turn of its loop, leaves the
\* loop after exactly n - 1 merges and returns the one node left, which holds
\* all n leaves: in encode.rs, and in compression.rs when max_freq is the sum
\* of the frequencies.
TreeBuildingTerminates ==
    LET leaves == init_symbol_nodes_prio_queue(frequency_table)
        n == Cardinality(leaves)
    IN n >= 1 =>
         /\ pc = "queue" => Cardinality(prio_queue) = n - merges
         /\ pc = "tree" => merges = n - 1 /\ Leaves(tree) = leaves
         /\ pc = "c_loop" =>
              /\ Cardinality(prio_queue) = n - merges
              /\ current_freq < max_freq => Cardinality(prio_queue) >= 2
         /\ pc = "c_returned" => merges = n - 1 /\ Leaves(tree) = leaves

====
